---- MODULE Spec2Model ----
(***************************************************************************)
(* A model of data_processor.py: the slicing of a video and of three audio *)
(* signals into time-aligned slices (preprocess_video_sample,              *)
(* preprocess_audio_signal, preprocess_audio_pair, preprocess_sample), the *)
(* inverse path (reconstruct_speech_signal) and the batch                  *)
(* (try_preprocess_sample, preprocess_data).                               *)
(*                                                                         *)
(* Numbers.  int((float(ms)/1000)*rate) is modelled by (ms*rate) \div 1000 *)
(* and int(float(a)/b) by a \div b.  For slice_duration_ms = 200 and every *)
(* integer rate up to 200000 the double-precision product truncates to the *)
(* same integer, and so does every quotient of the modelled rates; the     *)
(* inputs below are integer frame rates and integer sample rates.          *)
(*                                                                         *)
(* Arrays.  A waveform is its number of samples n, its sample rate and,    *)
(* when tracked, the samples themselves (data); the waveforms of realistic *)
(* length are untracked (data is empty and n alone is their length), which *)
(* the slice counts do not depend on.  Amplification, mixing and peak      *)
(* normalization scale samples by real factors: their results are          *)
(* untracked.  A frame is its index in the decoded video; a spectrogram    *)
(* slice is its range of time frames.                                      *)
(***************************************************************************)
EXTENDS Integers, Sequences, FiniteSets, TLC

VARIABLES
    \* preprocess_sample, one (video, speech, noise) triple
    video_file, speech_file, noise_file, pc,
    video_samples, video_frame_rate,
    speech_signal, noise_signal, mixed_signal, original_mixed,
    speech_spectrograms, noise_spectrograms, mixed_spectrograms,
    sample, reconstructed,
    \* preprocess_data, one batch
    video_file_paths, speech_file_paths, noise_file_paths, pool_size, bpc,
    samples, task_state, task_runs, map_result, preprocessed, output

sample_vars == <<video_file, speech_file, noise_file, pc,
                 video_samples, video_frame_rate,
                 speech_signal, noise_signal, mixed_signal, original_mixed,
                 speech_spectrograms, noise_spectrograms, mixed_spectrograms,
                 sample, reconstructed>>

batch_vars == <<video_file_paths, speech_file_paths, noise_file_paths,
                pool_size, bpc, samples, task_state, task_runs, map_result,
                preprocessed, output>>

vars == <<sample_vars, batch_vars>>

(***************************************************************************)
(* Bounds and input sets                                                   *)
(***************************************************************************)
MaxFrames == 13

MaxSpeechSamples == 4

MaxNoiseSamples == 3

MaxBatch == 3

NoiseValues == {1, 2}

TrackedRates == {40, 100}

FrameRates == {4, 6, 12, 24, 25, 30}

SampleRates == {8000, 16000, 22050}

SpeechLengths == {0, 1600, 16000, 40000}

NoiseLengths == {0, 1000, 16000, 50000}

\* multiprocess.Pool(8)
PoolSize == 8

Min(a, b) == IF a < b THEN a ELSE b

Abs(a) == IF a < 0 THEN -a ELSE a

None == [none |-> TRUE]

Raise == [raised |-> TRUE]

(***************************************************************************)
(* preprocess_video_sample                                                 *)
(***************************************************************************)
slice_duration_ms == 200

\* int((float(ms) / 1000) * rate)
IntOfScaled(ms, rate) == (ms * rate) \div 1000

frames_per_slice(frame_rate) == IntOfScaled(slice_duration_ms, frame_rate)

\* int(float(frame_count) / frames_per_slice), frames_per_slice > 0
n_video_slices(frame_count, fps) == frame_count \div fps

\* mouth_cropped_frames[:, :, (i*fps):((i+1)*fps)], i counted from 0
video_slice(src, i, fps) ==
    [src |-> src, frames |-> [k \in 1..fps |-> i * fps + (k - 1)]]

\* A video file: status "ok", "unreadable" (VideoFileReader raises) or
\* "noface" (FaceDetector.crop_mouth raises on some frame).
preprocess_video_sample(v) ==
    IF v.status # "ok" THEN Raise
    ELSE LET fps == frames_per_slice(v.frame_rate) IN
         IF fps = 0 THEN Raise                      \* ZeroDivisionError
         ELSE LET n == n_video_slices(v.frame_count, fps) IN
              IF n = 0 THEN Raise                   \* np.stack([])
              ELSE [raised |-> FALSE,
                    slices |-> [i \in 1..n |-> video_slice(v.id, i - 1, fps)],
                    frame_rate |-> v.frame_rate]

(***************************************************************************)
(* preprocess_audio_signal                                                 *)
(***************************************************************************)
samples_per_slice(rate) == IntOfScaled(slice_duration_ms, rate)

signal_length(rate, n_slices) == samples_per_slice(rate) * n_slices

\* audio_signal.pad_with_zeros(n) / audio_signal.truncate(n)
pad_with_zeros(sig, n) ==
    [sig EXCEPT !.n = n,
                !.data = IF sig.tracked
                         THEN @ \o [k \in 1..(n - sig.n) |-> 0] ELSE @]

\* x[:n]
Take(x, n) == SubSeq(x, 1, Min(n, Len(x)))

truncate(sig, n) == [sig EXCEPT !.n = Min(sig.n, n), !.data = Take(@, n)]

fit_to_length(sig, n) ==
    IF sig.n < n THEN pad_with_zeros(sig, n) ELSE truncate(sig, n)

n_fft(rate, frame_rate) == rate \div frame_rate

hop_length(nfft) == nfft \div 4

\* librosa.stft, center=True: the signal is padded by n_fft // 2 on both
\* sides and framed every hop_length samples.
StftFrames(n, nfft, hop) == 1 + (n + 2 * (nfft \div 2) - nfft) \div hop

StftBins(nfft) == 1 + nfft \div 2

StftRaises(n, nfft, hop) == nfft <= 0 \/ hop <= 0 \/ n <= 0

n_mel_freqs == 80

\* the spectrogram's number of rows on the two paths
spectrogram_bins(nfft, mel) ==
    IF mel THEN n_mel_freqs
    ELSE IF StftBins(nfft) % 2 # 0 THEN StftBins(nfft) - 1 ELSE StftBins(nfft)

spectrogram_samples_per_slice(rate, hop) == samples_per_slice(rate) \div hop

n_spectrogram_slices(frames, ssps) == frames \div ssps

\* spectrogram[:, (i*ssps):((i+1)*ssps)], i counted from 0
spectrogram_slice(src, bins, i, ssps) ==
    [src |-> src, bins |-> bins, first |-> i * ssps, frames |-> ssps]

preprocess_audio_signal(sig, n_slices, frame_rate, mel) ==
    LET fitted == fit_to_length(sig, signal_length(sig.rate, n_slices))
        nfft   == n_fft(sig.rate, frame_rate)
        hop    == hop_length(nfft)
    IN  IF StftRaises(fitted.n, nfft, hop) THEN Raise
        ELSE LET frames == StftFrames(fitted.n, nfft, hop)
                 bins   == spectrogram_bins(nfft, mel)
                 ssps   == spectrogram_samples_per_slice(sig.rate, hop)
             IN  IF ssps = 0 THEN Raise             \* ZeroDivisionError
                 ELSE LET n == n_spectrogram_slices(frames, ssps) IN
                      IF n = 0 THEN Raise           \* np.stack([])
                      ELSE [raised |-> FALSE,
                            slices |-> [i \in 1..n |->
                                spectrogram_slice(sig.id, bins, i - 1, ssps)]]

(***************************************************************************)
(* preprocess_audio_pair                                                   *)
(***************************************************************************)
\* AudioSignal.from_wav_file
from_wav_file(f) ==
    IF f.readable
    THEN [raised |-> FALSE, id |-> f.id, n |-> f.n, rate |-> f.rate,
          tracked |-> f.tracked, data |-> f.data]
    ELSE Raise

noise_too_short(noise, speech) == noise.n < speech.n

\* the noise lengthened by silence instead of by itself
concat_with_silence(noise) ==
    [noise EXCEPT !.n = noise.n + noise.n,
                  !.data = @ \o [k \in 1..Len(@) |-> 0]]

\* AudioSignal.concat([noise_signal, noise_signal])
concat_with_itself(noise) ==
    [noise EXCEPT !.n = noise.n + noise.n, !.data = @ \o @]

truncate_noise(noise, speech) == truncate(noise, speech.n)

\* AudioMixer.mix([speech, noise], mixing_weights=[1, 1]): the sum, sample
\* by sample, of two signals of one length and one rate
mix(speech, noise) ==
    [raised |-> FALSE, id |-> <<"mix", speech.id, noise.id>>,
     n |-> speech.n, rate |-> speech.rate, tracked |-> FALSE, data |-> <<>>]

\* noise_signal.amplify(speech_signal), speech_signal.peak_normalize(peak)
scaled(sig) == [sig EXCEPT !.tracked = FALSE, !.data = <<>>]

\* peak_normalize takes the maximum of the absolute samples: none of an
\* empty signal
peak_normalize_raises(sig) == sig.n = 0

slice_three(speech, noise, mixed, n_slices, frame_rate, mel) ==
    LET s == preprocess_audio_signal(speech, n_slices, frame_rate, mel)
        n == preprocess_audio_signal(noise, n_slices, frame_rate, mel)
        m == preprocess_audio_signal(mixed, n_slices, frame_rate, mel)
    IN  IF s.raised \/ n.raised \/ m.raised THEN Raise
        ELSE [raised |-> FALSE, mixed |-> m.slices, speech |-> s.slices,
              noise |-> n.slices]

(***************************************************************************)
(* preprocess_sample                                                       *)
(***************************************************************************)
\* the slice count taken from the audio alone
reconciled_slices_audio_only(n_video, n_mixed) == n_mixed

reconciled_slices(n_video, n_mixed) == Min(n_video, n_mixed)

preprocess_sample_return(video, frame_rate, mixed, speech, noise, mixed_sig) ==
    LET n == reconciled_slices(Len(video), Len(mixed)) IN
    [video_samples |-> Take(video, n),
     mixed_spectrograms |-> Take(mixed, n),
     speech_spectrograms |-> Take(speech, n),
     noise_spectrograms |-> Take(noise, n),
     mixed_signal |-> mixed_sig,
     video_frame_rate |-> frame_rate]

(***************************************************************************)
(* reconstruct_speech_signal                                               *)
(***************************************************************************)
\* np.concatenate(list(speech_spectrograms), axis=1): the time frames add up
concatenated_frames(slices) ==
    IF Len(slices) = 0 THEN 0 ELSE Len(slices) * slices[1].frames

\* original_phase[:-1, :spectrogram_length]
phase_bins(nfft) == StftBins(nfft) - 1

reconstruct_speech_signal(mixed_sig, slices, frame_rate) ==
    LET nfft == n_fft(mixed_sig.rate, frame_rate)
        hop  == hop_length(nfft)
    IN  IF StftRaises(mixed_sig.n, nfft, hop) \/ Len(slices) = 0 THEN Raise
        ELSE LET phase_frames == StftFrames(mixed_sig.n, nfft, hop)
                 spectrogram_length ==
                     Min(concatenated_frames(slices), phase_frames)
             IN  [raised |-> FALSE,
                  spectrogram_shape |-> <<slices[1].bins, spectrogram_length>>,
                  phase_shape |-> <<phase_bins(nfft), spectrogram_length>>]

(***************************************************************************)
(* The sample pipeline, step by step                                       *)
(***************************************************************************)
VideoFiles ==
    {[id |-> "v", status |-> "ok", frame_count |-> c, frame_rate |-> r] :
        c \in 0..MaxFrames, r \in FrameRates}
    \cup {[id |-> "v", status |-> s, frame_count |-> 0, frame_rate |-> 25] :
        s \in {"unreadable", "noface"}}

WavFile(id, readable, n, rate, tracked, data) ==
    [id |-> id, readable |-> readable, n |-> n, rate |-> rate,
     tracked |-> tracked, data |-> data]

SeqsUpTo(S, max) == UNION {[1..n -> S] : n \in 0..max}

SpeechFiles(rate) ==
    IF rate \in TrackedRates
    THEN {WavFile("s", TRUE, n, rate, TRUE, [k \in 1..n |-> 10 + k]) :
             n \in 0..MaxSpeechSamples}
    ELSE {WavFile("s", TRUE, n, rate, FALSE, <<>>) : n \in SpeechLengths}
         \cup {WavFile("s", FALSE, 0, rate, FALSE, <<>>)}

NoiseFiles(rate) ==
    IF rate \in TrackedRates
    THEN {WavFile("n", TRUE, Len(d), rate, TRUE, d) :
             d \in SeqsUpTo(NoiseValues, MaxNoiseSamples)}
    ELSE {WavFile("n", TRUE, n, rate, FALSE, <<>>) : n \in NoiseLengths}
         \cup {WavFile("n", FALSE, 0, rate, FALSE, <<>>)}

BatchIdle ==
    /\ video_file_paths = <<>>
    /\ speech_file_paths = <<>>
    /\ noise_file_paths = <<>>
    /\ pool_size = PoolSize
    /\ bpc = "idle"
    /\ samples = <<>>
    /\ task_state = <<>>
    /\ task_runs = <<>>
    /\ map_result = <<>>
    /\ preprocessed = <<>>
    /\ output = None

SampleInit ==
    /\ video_file \in VideoFiles
    /\ \E rate \in SampleRates \cup TrackedRates :
          /\ speech_file \in SpeechFiles(rate)
          /\ noise_file \in NoiseFiles(rate)
    /\ pc = "video"
    /\ video_samples = <<>>
    /\ video_frame_rate = 0
    /\ speech_signal = None
    /\ noise_signal = None
    /\ mixed_signal = None
    /\ original_mixed = None
    /\ speech_spectrograms = <<>>
    /\ noise_spectrograms = <<>>
    /\ mixed_spectrograms = <<>>
    /\ sample = None
    /\ reconstructed = None
    /\ BatchIdle

\* line 110
VideoStep ==
    /\ pc = "video"
    /\ LET r == preprocess_video_sample(video_file) IN
       IF r.raised
       THEN /\ pc' = "raised"
            /\ UNCHANGED <<video_samples, video_frame_rate>>
       ELSE /\ pc' = "load"
            /\ video_samples' = r.slices
            /\ video_frame_rate' = r.frame_rate
    /\ UNCHANGED <<video_file, speech_file, noise_file,
                   speech_signal, noise_signal, mixed_signal, original_mixed,
                   speech_spectrograms, noise_spectrograms, mixed_spectrograms,
                   sample, reconstructed>>
    /\ UNCHANGED batch_vars

\* lines 85-86
LoadAudio ==
    /\ pc = "load"
    /\ LET s == from_wav_file(speech_file)
           n == from_wav_file(noise_file)
       IN  IF s.raised \/ n.raised
           THEN /\ pc' = "raised"
                /\ UNCHANGED <<speech_signal, noise_signal>>
           ELSE /\ pc' = "while"
                /\ speech_signal' = s
                /\ noise_signal' = n
    /\ UNCHANGED <<video_file, speech_file, noise_file,
                   video_samples, video_frame_rate, mixed_signal, original_mixed,
                   speech_spectrograms, noise_spectrograms, mixed_spectrograms,
                   sample, reconstructed>>
    /\ UNCHANGED batch_vars

\* line 88
WhileTest ==
    /\ pc = "while"
    /\ pc' = IF noise_too_short(noise_signal, speech_signal)
             THEN "concat" ELSE "truncate"
    /\ UNCHANGED <<video_file, speech_file, noise_file,
                   video_samples, video_frame_rate,
                   speech_signal, noise_signal, mixed_signal, original_mixed,
                   speech_spectrograms, noise_spectrograms, mixed_spectrograms,
                   sample, reconstructed>>
    /\ UNCHANGED batch_vars

\* line 89
ConcatNoise ==
    /\ pc = "concat"
    /\ noise_signal' = concat_with_itself(noise_signal)
    /\ pc' = "while"
    /\ UNCHANGED <<video_file, speech_file, noise_file,
                   video_samples, video_frame_rate,
                   speech_signal, mixed_signal, original_mixed,
                   speech_spectrograms, noise_spectrograms, mixed_spectrograms,
                   sample, reconstructed>>
    /\ UNCHANGED batch_vars

\* line 91
TruncateNoise ==
    /\ pc = "truncate"
    /\ noise_signal' = truncate_noise(noise_signal, speech_signal)
    /\ pc' = "mix"
    /\ UNCHANGED <<video_file, speech_file, noise_file,
                   video_samples, video_frame_rate,
                   speech_signal, mixed_signal, original_mixed,
                   speech_spectrograms, noise_spectrograms, mixed_spectrograms,
                   sample, reconstructed>>
    /\ UNCHANGED batch_vars

\* lines 93-98
Mix ==
    /\ pc = "mix"
    /\ LET mixed == mix(speech_signal, noise_signal) IN
       IF peak_normalize_raises(mixed)
       THEN /\ pc' = "raised"
            /\ noise_signal' = scaled(noise_signal)
            /\ UNCHANGED <<speech_signal, mixed_signal, original_mixed>>
       ELSE /\ pc' = "slice"
            /\ noise_signal' = scaled(noise_signal)
            /\ speech_signal' = scaled(speech_signal)
            /\ mixed_signal' = mixed
            /\ original_mixed' = mixed
    /\ UNCHANGED <<video_file, speech_file, noise_file,
                   video_samples, video_frame_rate,
                   speech_spectrograms, noise_spectrograms, mixed_spectrograms,
                   sample, reconstructed>>
    /\ UNCHANGED batch_vars

\* lines 100-104, called with mel=False (line 112)
SliceAudio ==
    /\ pc = "slice"
    /\ LET r == slice_three(speech_signal, noise_signal, mixed_signal,
                            Len(video_samples), video_frame_rate, FALSE)
           len == signal_length(speech_signal.rate, Len(video_samples))
       IN  IF r.raised
           THEN /\ pc' = "raised"
                /\ UNCHANGED <<speech_signal, noise_signal, mixed_signal,
                               speech_spectrograms, noise_spectrograms,
                               mixed_spectrograms>>
           ELSE /\ pc' = "reconcile"
                /\ speech_signal' = fit_to_length(speech_signal, len)
                /\ noise_signal' = fit_to_length(noise_signal, len)
                /\ mixed_signal' = fit_to_length(mixed_signal, len)
                /\ speech_spectrograms' = r.speech
                /\ noise_spectrograms' = r.noise
                /\ mixed_spectrograms' = r.mixed
    /\ UNCHANGED <<video_file, speech_file, noise_file,
                   video_samples, video_frame_rate, original_mixed,
                   sample, reconstructed>>
    /\ UNCHANGED batch_vars

\* lines 114-124
Reconcile ==
    /\ pc = "reconcile"
    /\ sample' = preprocess_sample_return(video_samples, video_frame_rate,
                     mixed_spectrograms, speech_spectrograms,
                     noise_spectrograms, original_mixed)
    /\ pc' = "returned"
    /\ UNCHANGED <<video_file, speech_file, noise_file,
                   video_samples, video_frame_rate,
                   speech_signal, noise_signal, mixed_signal, original_mixed,
                   speech_spectrograms, noise_spectrograms, mixed_spectrograms,
                   reconstructed>>
    /\ UNCHANGED batch_vars

\* lines 66-79, fed the sample's own speech slices, mixed signal and rate
Reconstruct ==
    /\ pc = "returned"
    /\ reconstructed' = reconstruct_speech_signal(sample.mixed_signal,
                            sample.speech_spectrograms, sample.video_frame_rate)
    /\ pc' = "reconstructed"
    /\ UNCHANGED <<video_file, speech_file, noise_file,
                   video_samples, video_frame_rate,
                   speech_signal, noise_signal, mixed_signal, original_mixed,
                   speech_spectrograms, noise_spectrograms, mixed_spectrograms,
                   sample>>
    /\ UNCHANGED batch_vars

SampleNext ==
    \/ VideoStep
    \/ LoadAudio
    \/ WhileTest
    \/ ConcatNoise
    \/ TruncateNoise
    \/ Mix
    \/ SliceAudio
    \/ Reconcile
    \/ Reconstruct

Init == SampleInit

Next == SampleNext

Spec == Init /\ [][Next]_vars

(***************************************************************************)
(* One sample as a function of its files: what a worker computes           *)
(***************************************************************************)
\* The loop of lines 88-89 makes no progress, and never ends, on a noise
\* that its doubling does not lengthen.
loop_never_ends(noise, speech) ==
    noise_too_short(noise, speech) /\ concat_with_itself(noise).n = noise.n

RECURSIVE extend_noise(_, _)
extend_noise(noise, speech) ==
    IF noise_too_short(noise, speech) /\ ~loop_never_ends(noise, speech)
    THEN extend_noise(concat_with_itself(noise), speech)
    ELSE noise

preprocess_audio_pair(speech_wav, noise_wav, n_slices, frame_rate, mel) ==
    LET s == from_wav_file(speech_wav)
        n == from_wav_file(noise_wav)
    IN  IF s.raised \/ n.raised THEN Raise
        ELSE LET noise == truncate_noise(extend_noise(n, s), s)
                 mixed == mix(s, noise)
             IN  IF peak_normalize_raises(mixed) THEN Raise
                 ELSE LET r == slice_three(scaled(s), scaled(noise), mixed,
                                           n_slices, frame_rate, mel)
                      IN  IF r.raised THEN Raise
                          ELSE [raised |-> FALSE, mixed |-> r.mixed,
                                speech |-> r.speech, noise |-> r.noise,
                                original_mixed |-> mixed]

preprocess_sample(triple) ==
    LET v == preprocess_video_sample(triple[1]) IN
    IF v.raised THEN Raise
    ELSE LET a == preprocess_audio_pair(triple[2], triple[3], Len(v.slices),
                                        v.frame_rate, FALSE)
         IN  IF a.raised THEN Raise
             ELSE preprocess_sample_return(v.slices, v.frame_rate, a.mixed,
                                           a.speech, a.noise, a.original_mixed)

\* preprocess_sample(*sample) runs forever: the call of a worker never ends
never_returns(triple) ==
    /\ ~preprocess_video_sample(triple[1]).raised
    /\ triple[2].readable
    /\ triple[3].readable
    /\ loop_never_ends(from_wav_file(triple[3]), from_wav_file(triple[2]))

raises(triple) ==
    LET v == preprocess_video_sample(triple[1]) IN
    \/ v.raised
    \/ preprocess_audio_pair(triple[2], triple[3], Len(v.slices),
                             v.frame_rate, FALSE).raised

try_preprocess_sample(triple) ==
    IF raises(triple) THEN None ELSE preprocess_sample(triple)

(***************************************************************************)
(* preprocess_data                                                         *)
(***************************************************************************)
\* zip(video_file_paths, speech_file_paths, noise_file_paths)
zip(a, b, c) ==
    [i \in 1..Min(Len(a), Min(Len(b), Len(c))) |-> <<a[i], b[i], c[i]>>]

\* a map that returns as soon as the queue is empty
no_task_queued(states) == \A i \in 1..Len(states) : states[i] # "queued"

\* thread_pool.map returns once every task has put its result
all_tasks_complete(states) == \A i \in 1..Len(states) : states[i] = "done"

\* the tasks are taken from the queue in the order of the list (map cuts
\* the list into chunks of ceil(len / (4 * pool size)) triples: of one triple
\* for the batches modelled)
next_in_queue(states, i) ==
    /\ states[i] = "queued"
    /\ \A j \in 1..(i - 1) : states[j] # "queued"

worker_is_free(states, size) ==
    Cardinality({i \in 1..Len(states) : states[i] = "running"}) < size

\* [p for p in preprocessed if p is not None]
is_not_None(p) == p # None

\* a filter that stops at the first failed sample
RECURSIVE survivors_before_failure(_)
survivors_before_failure(results) ==
    IF results = <<>> \/ ~is_not_None(Head(results)) THEN <<>>
    ELSE <<Head(results)>> \o survivors_before_failure(Tail(results))

survivors(results) == SelectSeq(results, is_not_None)

RECURSIVE Flatten(_)
Flatten(arrays) ==
    IF arrays = <<>> THEN <<>> ELSE Head(arrays) \o Flatten(Tail(arrays))

\* the shape of one slice: the frames of a video slice, the bins and the
\* frames of a spectrogram slice
slice_shape(x) ==
    IF "bins" \in DOMAIN x THEN <<x.bins, x.frames>> ELSE <<Len(x.frames)>>

\* np.concatenate raises on an empty list and on arrays whose dimensions,
\* but the first, differ
concatenate_raises(arrays) ==
    \/ arrays = <<>>
    \/ \E i, j \in 1..Len(arrays) :
          \E x \in 1..Len(arrays[i]), y \in 1..Len(arrays[j]) :
              slice_shape(arrays[i][x]) # slice_shape(arrays[j][y])

concatenate(arrays) == Flatten(arrays)

video_of(ps) == [i \in 1..Len(ps) |-> ps[i].video_samples]

mixed_of(ps) == [i \in 1..Len(ps) |-> ps[i].mixed_spectrograms]

speech_of(ps) == [i \in 1..Len(ps) |-> ps[i].speech_spectrograms]

noise_of(ps) == [i \in 1..Len(ps) |-> ps[i].noise_spectrograms]

preprocess_data_raises(ps) ==
    \/ concatenate_raises(video_of(ps))
    \/ concatenate_raises(mixed_of(ps))
    \/ concatenate_raises(speech_of(ps))
    \/ concatenate_raises(noise_of(ps))

preprocess_data_return(ps) ==
    [video_samples |-> concatenate(video_of(ps)),
     mixed_spectrograms |-> concatenate(mixed_of(ps)),
     speech_spectrograms |-> concatenate(speech_of(ps)),
     noise_spectrograms |-> concatenate(noise_of(ps))]

Pending == [pending |-> TRUE]

BatchVideos ==
    {[id |-> "v25", status |-> "ok", frame_count |-> 10, frame_rate |-> 25],
     [id |-> "v30", status |-> "ok", frame_count |-> 7, frame_rate |-> 30],
     [id |-> "vshort", status |-> "ok", frame_count |-> 3, frame_rate |-> 25],
     [id |-> "vbad", status |-> "unreadable", frame_count |-> 0, frame_rate |-> 25]}

BatchSpeech == {WavFile("s1", TRUE, 16000, 16000, FALSE, <<>>)}

BatchNoise ==
    {WavFile("n1", TRUE, 4000, 16000, FALSE, <<>>),
     WavFile("n0", TRUE, 0, 16000, FALSE, <<>>)}

SampleIdle ==
    /\ video_file = None
    /\ speech_file = None
    /\ noise_file = None
    /\ pc = "idle"
    /\ video_samples = <<>>
    /\ video_frame_rate = 0
    /\ speech_signal = None
    /\ noise_signal = None
    /\ mixed_signal = None
    /\ original_mixed = None
    /\ speech_spectrograms = <<>>
    /\ noise_spectrograms = <<>>
    /\ mixed_spectrograms = <<>>
    /\ sample = None
    /\ reconstructed = None

\* zip never reads a list past the length of the shortest one: the entries
\* there are all taken equal to one file.
UnreadEntriesAre(paths, n, file) == \A i \in (n + 1)..Len(paths) : paths[i] = file

\* The pool has 8 workers (line 142); a pool of 1 is the run the batch of 8
\* is compared with.
BatchInit ==
    /\ video_file_paths \in SeqsUpTo(BatchVideos, MaxBatch)
    /\ speech_file_paths \in SeqsUpTo(BatchSpeech, MaxBatch)
    /\ noise_file_paths \in SeqsUpTo(BatchNoise, MaxBatch)
    /\ LET n == Len(zip(video_file_paths, speech_file_paths, noise_file_paths)) IN
       /\ UnreadEntriesAre(video_file_paths, n,
              [id |-> "v25", status |-> "ok", frame_count |-> 10, frame_rate |-> 25])
       /\ UnreadEntriesAre(noise_file_paths, n,
              WavFile("n1", TRUE, 4000, 16000, FALSE, <<>>))
    /\ pool_size \in {1, PoolSize}
    /\ bpc = "start"
    /\ samples = <<>>
    /\ task_state = <<>>
    /\ task_runs = <<>>
    /\ map_result = <<>>
    /\ preprocessed = <<>>
    /\ output = None
    /\ SampleIdle

\* lines 140-143: the triples are zipped and handed to the pool
Dispatch ==
    /\ bpc = "start"
    /\ samples' = zip(video_file_paths, speech_file_paths, noise_file_paths)
    /\ task_state' = [i \in 1..Len(samples') |-> "queued"]
    /\ task_runs' = [i \in 1..Len(samples') |-> 0]
    /\ map_result' = [i \in 1..Len(samples') |-> Pending]
    /\ bpc' = "map"
    /\ UNCHANGED <<video_file_paths, speech_file_paths, noise_file_paths,
                   pool_size, preprocessed, output>>
    /\ UNCHANGED sample_vars

\* a free worker takes the next task and calls try_preprocess_sample;
\* task_runs counts the calls made for each triple
WorkerStart(i) ==
    /\ bpc = "map"
    /\ next_in_queue(task_state, i)
    /\ worker_is_free(task_state, pool_size)
    /\ task_state' = [task_state EXCEPT ![i] = "running"]
    /\ task_runs' = [task_runs EXCEPT ![i] = @ + 1]
    /\ UNCHANGED <<video_file_paths, speech_file_paths, noise_file_paths,
                   pool_size, bpc, samples, map_result, preprocessed, output>>
    /\ UNCHANGED sample_vars

\* lines 128-134: the call returns the sample, or None after an exception;
\* the worker puts it at the task's place in the result list
WorkerFinish(i) ==
    /\ bpc = "map"
    /\ task_state[i] = "running"
    /\ ~never_returns(samples[i])
    /\ map_result' = [map_result EXCEPT ![i] = try_preprocess_sample(samples[i])]
    /\ task_state' = [task_state EXCEPT ![i] = "done"]
    /\ UNCHANGED <<video_file_paths, speech_file_paths, noise_file_paths,
                   pool_size, bpc, samples, task_runs, preprocessed, output>>
    /\ UNCHANGED sample_vars

\* line 143: thread_pool.map returns the results in the order of the tasks
MapReturn ==
    /\ bpc = "map"
    /\ all_tasks_complete(task_state)
    /\ preprocessed' = map_result
    /\ bpc' = "filter"
    /\ UNCHANGED <<video_file_paths, speech_file_paths, noise_file_paths,
                   pool_size, samples, task_state, task_runs, map_result, output>>
    /\ UNCHANGED sample_vars

\* lines 144-156
Aggregate ==
    /\ bpc = "filter"
    /\ preprocessed' = survivors(preprocessed)
    /\ IF preprocess_data_raises(preprocessed')
       THEN /\ bpc' = "raised"
            /\ UNCHANGED output
       ELSE /\ bpc' = "done"
            /\ output' = preprocess_data_return(preprocessed')
    /\ UNCHANGED <<video_file_paths, speech_file_paths, noise_file_paths,
                   pool_size, samples, task_state, task_runs, map_result>>
    /\ UNCHANGED sample_vars

BatchNext ==
    \/ Dispatch
    \/ \E i \in 1..Len(task_state) : WorkerStart(i)
    \/ \E i \in 1..Len(task_state) : WorkerFinish(i)
    \/ MapReturn
    \/ Aggregate

BatchSpec == BatchInit /\ [][BatchNext]_vars

FairSpec == Spec /\ WF_vars(Next)

(***************************************************************************)
(* Properties of one sample                                                *)
(***************************************************************************)
Returned == pc \in {"returned", "reconstructed"}

\* C1: whenever preprocess_sample returns, its four streams have the same
\* number of slices n, the smaller of the video slice count and the mixed
\* spectrogram slice count, and the speech and the noise slice counts
\* computed by preprocess_audio_signal are not smaller than n.
C1_SameSliceCount ==
    Returned =>
        LET n == Min(Len(video_samples), Len(mixed_spectrograms)) IN
        /\ Len(sample.video_samples) = n
        /\ Len(sample.mixed_spectrograms) = n
        /\ Len(sample.speech_spectrograms) = n
        /\ Len(sample.noise_spectrograms) = n
        /\ Len(speech_spectrograms) >= n
        /\ Len(noise_spectrograms) >= n

\* a sample returned whose audio yields more slices than its video, so that
\* the reconciliation cuts the three spectrogram streams
C1_Witness ==
    /\ pc = "returned"
    /\ Len(mixed_spectrograms) > Len(video_samples)
    /\ Len(sample.speech_spectrograms) >= 2

\* C2: in a returned sample, video slice i and spectrogram slice i (mixed,
\* speech, noise) start at the same time, up to less than one hop_length of
\* audio: |first frame / frame_rate - first column * hop_length / rate| is
\* below hop_length / rate (compared after multiplying by frame_rate * rate).
\* Stated for the sample rates 8000, 16000 and 22050 Hz.
C2_SlicesAligned ==
    (Returned /\ sample.mixed_signal.rate \in SampleRates) =>
        LET rate == sample.mixed_signal.rate
            fr   == sample.video_frame_rate
            hop  == hop_length(n_fft(rate, fr))
            Aligned(v, a) == Abs(v.frames[1] * rate - a.first * hop * fr) < hop * fr
        IN  \A i \in 1..Len(sample.video_samples) :
                /\ Aligned(sample.video_samples[i], sample.mixed_spectrograms[i])
                /\ Aligned(sample.video_samples[i], sample.speech_spectrograms[i])
                /\ Aligned(sample.video_samples[i], sample.noise_spectrograms[i])

\* round(ms / 1000 * rate)
RoundOfScaled(ms, rate) == (2 * ms * rate + 1000) \div 2000

\* C3: the video slicer returns floor(frame_count / frames_per_slice) slices
\* with frames_per_slice = round(slice_duration_ms / 1000 * frame_rate), and
\* slice i holds the frames i*frames_per_slice .. (i+1)*frames_per_slice - 1
\* in order.
C3_VideoSlicerRounds ==
    video_samples # <<>> =>
        LET fps == RoundOfScaled(slice_duration_ms, video_file.frame_rate) IN
        /\ Len(video_samples) = video_file.frame_count \div fps
        /\ \A i \in 1..Len(video_samples) :
               video_samples[i].frames = [k \in 1..fps |-> (i - 1) * fps + (k - 1)]

\* C5: after the extension and the truncation (line 91) the noise has the
\* length L of the speech, and its k-th sample is noise[k mod m] when the
\* loaded noise of length m is shorter than the speech, and the k-th sample
\* of the loaded noise when m >= L.
C5_NoiseTiled ==
    (pc = "mix" /\ noise_file.tracked) =>
        LET m == Len(noise_file.data)
            L == speech_signal.n
        IN  /\ noise_signal.n = L
            /\ Len(noise_signal.data) = L
            /\ \A k \in 0..(L - 1) :
                   noise_signal.data[k + 1] =
                       IF m < L THEN noise_file.data[(k % m) + 1]
                       ELSE noise_file.data[k + 1]

\* a noise of three samples, not all equal, doubled once and cut to four
C5_Witness ==
    /\ pc = "mix"
    /\ noise_file.tracked
    /\ Len(noise_file.data) = 3
    /\ noise_file.data[1] # noise_file.data[3]
    /\ speech_signal.n = 4

\* C7: preprocess_audio_pair, once both waveforms are loaded, returns (the
\* slices are handed to the reconciliation) or raises.
C7_AudioPairTerminates == (pc = "while") ~> (pc \in {"reconcile", "raised"})

\* C10: the spectrogram and the phase handed to the inverse transform have
\* the same shape, with min(concatenated slice frames, phase frames) frames.
\* Stated for the sample rates 8000, 16000 and 22050 Hz.
C10_SameShape ==
    (pc = "reconstructed" /\ ~reconstructed.raised
        /\ sample.mixed_signal.rate \in SampleRates) =>
        /\ reconstructed.spectrogram_shape = reconstructed.phase_shape
        /\ reconstructed.spectrogram_shape[2] =
               Min(concatenated_frames(sample.speech_spectrograms),
                   StftFrames(sample.mixed_signal.n,
                              n_fft(sample.mixed_signal.rate, sample.video_frame_rate),
                              hop_length(n_fft(sample.mixed_signal.rate,
                                               sample.video_frame_rate))))

(***************************************************************************)
(* Properties of the batch                                                 *)
(***************************************************************************)
Succeeds(triple) == ~raises(triple) /\ ~never_returns(triple)

SucceedingSamples == SelectSeq(samples, Succeeds)

\* the slices of the succeeding samples, in the order of the list
RECURSIVE SlicesOf(_, _)
SlicesOf(triples, stream) ==
    IF triples = <<>> THEN <<>>
    ELSE LET p == preprocess_sample(Head(triples)) IN
         (CASE stream = "video" -> p.video_samples
            [] stream = "mixed" -> p.mixed_spectrograms
            [] stream = "speech" -> p.speech_spectrograms
            [] stream = "noise" -> p.noise_spectrograms)
         \o SlicesOf(Tail(triples), stream)

SameSliceShapes(t, u) ==
    LET p == preprocess_sample(t)
        q == preprocess_sample(u)
    IN  /\ Len(p.video_samples[1].frames) = Len(q.video_samples[1].frames)
        /\ p.mixed_spectrograms[1].bins = q.mixed_spectrograms[1].bins
        /\ p.mixed_spectrograms[1].frames = q.mixed_spectrograms[1].frames

\* C4: a sample that fails gives None, never a partial sample; the batch
\* raises only when no sample succeeded or when the slices of two succeeding
\* samples differ in shape, never because of the failures; and when it
\* returns, each output array is the concatenation of all the slices of
\* exactly the succeeding samples.
C4_FailuresDropped ==
    /\ \A i \in 1..Len(map_result) :
          map_result[i] # Pending =>
              IF raises(samples[i]) THEN map_result[i] = None
              ELSE /\ map_result[i] # None
                   /\ Len(map_result[i].video_samples) >= 1
                   /\ Len(map_result[i].mixed_spectrograms)
                          = Len(map_result[i].video_samples)
                   /\ Len(map_result[i].speech_spectrograms)
                          = Len(map_result[i].video_samples)
                   /\ Len(map_result[i].noise_spectrograms)
                          = Len(map_result[i].video_samples)
    /\ bpc = "raised" =>
          \/ SucceedingSamples = <<>>
          \/ \E i, j \in 1..Len(SucceedingSamples) :
                ~SameSliceShapes(SucceedingSamples[i], SucceedingSamples[j])
    /\ bpc = "done" =>
          /\ SucceedingSamples # <<>>
          /\ output.video_samples = SlicesOf(SucceedingSamples, "video")
          /\ output.mixed_spectrograms = SlicesOf(SucceedingSamples, "mixed")
          /\ output.speech_spectrograms = SlicesOf(SucceedingSamples, "speech")
          /\ output.noise_spectrograms = SlicesOf(SucceedingSamples, "noise")

\* a batch of three that returned, one sample failed, a later one survived
C4_Witness ==
    /\ bpc = "done"
    /\ Len(samples) = 3
    /\ Len(SucceedingSamples) = 2
    /\ raises(samples[1])

\* C8: preprocess_data does not return a result when the three path lists
\* differ in length.
C8_MismatchedListsFail ==
    (Len(video_file_paths) # Len(speech_file_paths)
        \/ Len(speech_file_paths) # Len(noise_file_paths))
    => bpc # "done"

\* C9: in every schedule and for either pool size, each triple is run at
\* most once and, once the aggregation has begun, exactly once; each result
\* is that of its own triple, whatever happened to the others; the
\* aggregation begins only after every task has completed; and the samples
\* that enter the concatenation are those of the sequential run.
C9_ScheduleIndependent ==
    /\ \A i \in 1..Len(task_runs) : task_runs[i] <= 1
    /\ \A i \in 1..Len(map_result) :
          map_result[i] # Pending =>
              map_result[i] = try_preprocess_sample(samples[i])
    /\ bpc \in {"filter", "done", "raised"} =>
          /\ Len(task_state) = Min(Len(video_file_paths),
                                   Min(Len(speech_file_paths), Len(noise_file_paths)))
          /\ \A i \in 1..Len(task_state) :
                /\ task_state[i] = "done"
                /\ task_runs[i] = 1
                /\ map_result[i] # Pending
    /\ bpc \in {"done", "raised"} =>
          preprocessed = [i \in 1..Len(SucceedingSamples) |->
                              preprocess_sample(SucceedingSamples[i])]

\* eight workers, three tasks in flight: the second failed and is done
\* while the first and the third, which succeed, are still running
C9_Witness ==
    /\ bpc = "map"
    /\ pool_size = PoolSize
    /\ task_state = <<"running", "done", "running">>
    /\ map_result[2] = None
    /\ Succeeds(samples[1])
    /\ Succeeds(samples[3])

====
